---- MODULE Spec2Model ----
(***************************************************************************)
(* Model of the Mini HTML language server (server/src/server.ts).          *)
(*                                                                         *)
(* A text is a sequence of one-character strings.  Offsets handed to the   *)
(* JavaScript string functions (indexOf, substring) are 0-based, as in the *)
(* source; positions inside the regular-expression matchers are 1-based    *)
(* sequence indices.                                                       *)
(***************************************************************************)
EXTENDS Integers, Sequences, FiniteSets, TLC

VARIABLES inbox, documents, sent, arrived, stack, nestLog

vars == <<inbox, documents, sent, arrived, stack, nestLog>>

(***************************************************************************)
(* Characters                                                              *)
(***************************************************************************)
\* \s of the regular expressions and the characters String.trim removes
IsSpace(c) == c \in {" ", "\n", "\t", "\r"}

LowerLetters == {"a","b","c","d","e","f","g","h","i","j","k","l","m",
                 "n","o","p","q","r","s","t","u","v","w","x","y","z"}

\* the i flag of the regular expressions and String.toLowerCase
LowerOf ==
  ("A" :> "a") @@ ("B" :> "b") @@ ("C" :> "c") @@ ("D" :> "d") @@ ("E" :> "e") @@
  ("F" :> "f") @@ ("G" :> "g") @@ ("H" :> "h") @@ ("I" :> "i") @@ ("J" :> "j") @@
  ("K" :> "k") @@ ("L" :> "l") @@ ("M" :> "m") @@ ("N" :> "n") @@ ("O" :> "o") @@
  ("P" :> "p") @@ ("Q" :> "q") @@ ("R" :> "r") @@ ("S" :> "s") @@ ("T" :> "t") @@
  ("U" :> "u") @@ ("V" :> "v") @@ ("W" :> "w") @@ ("X" :> "x") @@ ("Y" :> "y") @@
  ("Z" :> "z")

toLowerCase(c) == IF c \in DOMAIN LowerOf THEN LowerOf[c] ELSE c

\* [a-zA-Z]
IsLetter(c) == c \in LowerLetters \/ c \in DOMAIN LowerOf

\* [a-zA-Z0-9]
IsAlnum(c) == IsLetter(c) \/ c \in {"0","1","2","3","4","5","6","7","8","9"}

(***************************************************************************)
(* JavaScript string functions                                             *)
(***************************************************************************)
\* the literal pat stands at 1-based position i of t (case-sensitive)
LitAt(t, i, pat) ==
  /\ i >= 1
  /\ i + Len(pat) - 1 <= Len(t)
  /\ \A k \in 1..Len(pat) : t[i + k - 1] = pat[k]

\* String.indexOf: 0-based offset of the first occurrence, -1 when absent
indexOf(t, pat) ==
  LET hits == {i \in 1..(Len(t) - Len(pat) + 1) : LitAt(t, i, pat)}
  IN IF hits = {} THEN -1
     ELSE (CHOOSE i \in hits : \A j \in hits : i <= j) - 1

\* String.includes
includes(t, pat) == \E i \in 1..(Len(t) - Len(pat) + 1) : LitAt(t, i, pat)

\* String.substring(0, n); a negative n is taken as 0
substring0(t, n) == IF n <= 0 THEN <<>> ELSE SubSeq(t, 1, IF n > Len(t) THEN Len(t) ELSE n)

\* t.split('\n').length - 1: the number of line breaks in t
lineBreaks(t) == Cardinality({i \in 1..Len(t) : t[i] = "\n"})

\* fullText.substring(0, errorPos).split('\n').length - 1
lineOf(fullText, errorPos) == lineBreaks(substring0(fullText, errorPos))

\* String.trim
trim(t) ==
  LET solid == {i \in 1..Len(t) : ~IsSpace(t[i])}
  IN IF solid = {} THEN <<>>
     ELSE SubSeq(t, CHOOSE i \in solid : \A j \in solid : i <= j,
                    CHOOSE i \in solid : \A j \in solid : i >= j)

startsWith(t, pat) == LitAt(t, 1, pat)

endsWith(t, pat) == LitAt(t, Len(t) - Len(pat) + 1, pat)

\* the length of the last element of t.split('\n')
lastLineLength(t) ==
  LET brk == {i \in 1..Len(t) : t[i] = "\n"}
  IN IF brk = {} THEN Len(t)
     ELSE Len(t) - (CHOOSE i \in brk : \A j \in brk : i >= j)

Max(a, b) == IF a >= b THEN a ELSE b

(***************************************************************************)
(* Regular-expression fragments                                            *)
(***************************************************************************)
\* \s* from position i: the first position that holds no white space
RECURSIVE SkipSpace(_, _)
SkipSpace(t, i) ==
  IF i <= Len(t) /\ IsSpace(t[i]) THEN SkipSpace(t, i + 1) ELSE i

\* a tag name under the i flag at position i (name is given in lower case)
NameAt(t, i, name) ==
  /\ i + Len(name) - 1 <= Len(t)
  /\ \A k \in 1..Len(name) : toLowerCase(t[i + k - 1]) = name[k]

\* the first position >= i that holds ">", 0 when there is none
RECURSIVE NextGt(_, _)
NextGt(t, i) ==
  IF i > Len(t) THEN 0
  ELSE IF t[i] = ">" THEN i
  ELSE NextGt(t, i + 1)

\* /<\s*NAME[^>]*>/i anchored at i: the position of the closing ">", else 0
OpenTagEnd(t, i, name) ==
  IF i > Len(t) \/ t[i] # "<" THEN 0
  ELSE LET j == SkipSpace(t, i + 1)
       IN IF NameAt(t, j, name) THEN NextGt(t, j + Len(name)) ELSE 0

\* /<\s*\/\s*NAME\s*>/i anchored at i: the position of the closing ">", else 0
CloseTagEnd(t, i, name) ==
  IF i > Len(t) \/ t[i] # "<" THEN 0
  ELSE LET j == SkipSpace(t, i + 1)
       IN IF j > Len(t) \/ t[j] # "/" THEN 0
          ELSE LET k == SkipSpace(t, j + 1)
               IN IF ~NameAt(t, k, name) THEN 0
                  ELSE LET m == SkipSpace(t, k + Len(name))
                       IN IF m <= Len(t) /\ t[m] = ">" THEN m ELSE 0

\* the first position >= i where the closing tag of name matches, else 0
RECURSIVE NextClose(_, _, _)
NextClose(t, i, name) ==
  IF i > Len(t) THEN 0
  ELSE IF CloseTagEnd(t, i, name) # 0 THEN i
  ELSE NextClose(t, i + 1, name)

NoMatch == [from |-> 0, innerFrom |-> 0, innerTo |-> 0, to |-> 0]

\* /<\s*NAME[^>]*>([\s\S]*?)<\s*\/\s*NAME\s*>/i anchored at i: the match
\* from..to and its group 1 innerFrom..innerTo (lazy: the first closing tag)
PairAt(t, i, name) ==
  LET e == OpenTagEnd(t, i, name)
  IN IF e = 0 THEN NoMatch
     ELSE LET c == NextClose(t, e + 1, name)
          IN IF c = 0 THEN NoMatch
             ELSE [from |-> i, innerFrom |-> e + 1, innerTo |-> c - 1,
                   to |-> CloseTagEnd(t, c, name)]

\* the g flag: all matches of the pair pattern, left to right, each search
\* resuming after the previous match
RECURSIVE PairMatchesFrom(_, _, _)
PairMatchesFrom(t, i, name) ==
  IF i > Len(t) THEN <<>>
  ELSE LET m == PairAt(t, i, name)
       IN IF m.from = 0 THEN PairMatchesFrom(t, i + 1, name)
          ELSE <<m>> \o PairMatchesFrom(t, m.to + 1, name)

PairMatches(t, name) == PairMatchesFrom(t, 1, name)

\* match[0] and match[1] of a pair match
Whole(t, m) == SubSeq(t, m.from, m.to)
Inner(t, m) == SubSeq(t, m.innerFrom, m.innerTo)

\* /<\s*\/?\s*([a-zA-Z][a-zA-Z0-9]*)/ anchored at i: where group 1 starts, else 0
TagNameStart(t, i) ==
  IF i > Len(t) \/ t[i] # "<" THEN 0
  ELSE LET j == SkipSpace(t, i + 1)
           k == IF j <= Len(t) /\ t[j] = "/" THEN SkipSpace(t, j + 1) ELSE j
       IN IF k <= Len(t) /\ IsLetter(t[k]) THEN k ELSE 0

\* /<\s*\/?\s*([a-zA-Z][a-zA-Z0-9]*)[^>]*\/?\s*>/ anchored at i: the position
\* of the closing ">", else 0
TagTokenEnd(t, i) ==
  LET k == TagNameStart(t, i)
  IN IF k = 0 THEN 0 ELSE NextGt(t, k + 1)

\* the g flag: all tag tokens of t, left to right, as [from, to]
RECURSIVE TagTokensFrom(_, _)
TagTokensFrom(t, i) ==
  IF i > Len(t) THEN <<>>
  ELSE LET e == TagTokenEnd(t, i)
       IN IF e = 0 THEN TagTokensFrom(t, i + 1)
          ELSE <<[from |-> i, to |-> e]>> \o TagTokensFrom(t, e + 1)

TagTokens(t) == TagTokensFrom(t, 1)

\* the end of the greedy run [a-zA-Z0-9]* from position i
RECURSIVE NameEnd(_, _)
NameEnd(t, i) ==
  IF i + 1 <= Len(t) /\ IsAlnum(t[i + 1]) THEN NameEnd(t, i + 1) ELSE i

\* tagName[1].toLowerCase() of an element (a tag token)
TagName(element) ==
  LET k == TagNameStart(element, 1)
      e == NameEnd(element, k)
  IN [i \in 1..(e - k + 1) |-> toLowerCase(element[k + i - 1])]

\* inner.match(/<\s*div[^>]*>/gi) is not null
HasOpenTag(t, name) == \E i \in 1..Len(t) : OpenTagEnd(t, i, name) # 0

RECURSIVE Concat(_)
Concat(ss) == IF ss = <<>> THEN <<>> ELSE Head(ss) \o Concat(Tail(ss))

(***************************************************************************)
(* Literals of the source                                                  *)
(***************************************************************************)
sHtmlOpen == <<"<","h","t","m","l",">">>
sHtmlClose == <<"<","/","h","t","m","l",">">>
sHeadPrefix == <<"<","h","e","a","d">>
sBodyPrefix == <<"<","b","o","d","y">>
sSelfClose == <<"/",">">>
sLt == <<"<">>
nHtml == <<"h","t","m","l">>
nHead == <<"h","e","a","d">>
nBody == <<"b","o","d","y">>
nTitle == <<"t","i","t","l","e">>
nMeta == <<"m","e","t","a">>
nDiv == <<"d","i","v">>
nSpan == <<"s","p","a","n">>

MsgStart == "Document must start with <html>"
MsgEnd == "Document must end with </html>"
MsgHead == "HTML must contain exactly one <head> element"
MsgBody == "HTML must contain exactly one <body> element"
MsgHeadContent == "<head> may contain only <title> or <meta> elements"
MsgBodyContent == "<body> may contain only <div> or <span> elements"
MsgTitle == "<title> can contain only text"
MsgSpan == "<span> cannot contain <div> elements"

\* a Diagnostic: its message and its range
Diagnostic(msg, startLine, startChar, endLine, endChar) ==
  [message |-> msg, startLine |-> startLine, startChar |-> startChar,
   endLine |-> endLine, endChar |-> endChar]

(***************************************************************************)
(* The validators                                                          *)
(***************************************************************************)
\* the diagnostic both content validators push for a disallowed element
ElementDiagnostic(element, fullText, msg) ==
  LET errorPos == indexOf(fullText, element)
      line == lineOf(fullText, errorPos)
  IN Diagnostic(msg, line, 0, line, Len(element))

\* Rule 3: <head> may contain only <title> or <meta>
validateHeadContent(headContent, fullText) ==
  LET elements == TagTokens(headContent)
      Check(tok) ==
        LET element == SubSeq(headContent, tok.from, tok.to)
            name == TagName(element)
        IN IF name # nTitle /\ name # nMeta /\ ~includes(element, sSelfClose)
           THEN <<ElementDiagnostic(element, fullText, MsgHeadContent)>>
           ELSE <<>>
  IN Concat([i \in 1..Len(elements) |-> Check(elements[i])])

\* Rule 5 inside validateNesting: <title> can contain only text
TitleDiagnostics(content, fullText) ==
  LET titleMatches == PairMatches(content, nTitle)
      Check(m) ==
        LET titleMatch == Whole(content, m)
        IN IF includes(Inner(content, m), sLt)
           THEN LET line == lineOf(fullText, indexOf(fullText, titleMatch))
                IN <<Diagnostic(MsgTitle, line, 0, line, Len(titleMatch))>>
           ELSE <<>>
  IN Concat([i \in 1..Len(titleMatches) |-> Check(titleMatches[i])])

\* Rule 6 inside validateNesting: <span> cannot contain <div>
SpanDiagnostics(content, fullText) ==
  LET spanMatches == PairMatches(content, nSpan)
      Check(m) ==
        LET spanMatch == Whole(content, m)
        IN IF HasOpenTag(Inner(content, m), nDiv)
           THEN LET line == lineOf(fullText, indexOf(fullText, spanMatch))
                IN <<Diagnostic(MsgSpan, line, 0, line, Len(spanMatch))>>
           ELSE <<>>
  IN Concat([i \in 1..Len(spanMatches) |-> Check(spanMatches[i])])

\* variant of RecursiveArgument: the call receives the whole match (divMatch)
\* where the source passes innerContent[1]
RecursiveArgumentWhole(content, m) == Whole(content, m)

\* the fragment a recursive call receives for a div or span match
\* (innerContent[1])
RecursiveArgument(content, m) == Inner(content, m)

\* the fragments validateNesting calls itself on, in call order: the inner
\* text of every div match, then of every span match
NestedFragments(content) ==
  LET divMatches == PairMatches(content, nDiv)
      spanMatchesRecursive == PairMatches(content, nSpan)
  IN [i \in 1..Len(divMatches) |-> RecursiveArgument(content, divMatches[i])]
     \o [i \in 1..Len(spanMatchesRecursive) |->
           RecursiveArgument(content, spanMatchesRecursive[i])]

RECURSIVE validateNesting(_, _)
validateNesting(content, fullText) ==
  LET nested == NestedFragments(content)
  IN TitleDiagnostics(content, fullText)
     \o SpanDiagnostics(content, fullText)
     \o Concat([i \in 1..Len(nested) |-> validateNesting(nested[i], fullText)])

\* Rule 4: <body> may contain only <div> or <span>, then the nesting rules
validateBodyContent(bodyContent, fullText) ==
  LET elements == TagTokens(bodyContent)
      Check(tok) ==
        LET element == SubSeq(bodyContent, tok.from, tok.to)
            name == TagName(element)
        IN IF name # nDiv /\ name # nSpan /\ ~includes(element, sSelfClose)
           THEN <<ElementDiagnostic(element, fullText, MsgBodyContent)>>
           ELSE <<>>
  IN Concat([i \in 1..Len(elements) |-> Check(elements[i])])
     \o validateNesting(bodyContent, fullText)

\* Rule 1: the document must start with <html> and end with </html>
StartDiagnostics(text) ==
  IF ~startsWith(trim(text), sHtmlOpen)
  THEN <<Diagnostic(MsgStart, 0, 0, 0, 6)>>
  ELSE <<>>

\* variant of EndDiagnostics: the start character without Math.max(0, ...)
EndDiagnosticsUnclamped(text) ==
  IF ~endsWith(trim(text), sHtmlClose)
  THEN LET lastLine == lineBreaks(text)
           lineLength == lastLineLength(text)
       IN <<Diagnostic(MsgEnd, lastLine, lineLength - 7, lastLine, lineLength)>>
  ELSE <<>>

EndDiagnostics(text) ==
  IF ~endsWith(trim(text), sHtmlClose)
  THEN LET lastLine == lineBreaks(text)
           lineLength == lastLineLength(text)
       IN <<Diagnostic(MsgEnd, lastLine, Max(0, lineLength - 7), lastLine, lineLength)>>
  ELSE <<>>

\* variant of CardinalityDiagnostics: only a missing element is reported
\* (count === 0 where the source has count !== 1)
CardinalityDiagnosticsOnlyMissing(count, content, text, prefix, msg) ==
  IF count = 0
  THEN LET errorPos == IF indexOf(content, prefix) # -1 THEN indexOf(text, prefix) ELSE 0
           line == lineOf(text, errorPos)
       IN <<Diagnostic(msg, line, 0, line, 10)>>
  ELSE <<>>

\* variant of CardinalityDiagnostics: the offset inside the html content is
\* used as the offset in the document (content.indexOf where the source has
\* text.indexOf)
CardinalityDiagnosticsByContent(count, content, text, prefix, msg) ==
  IF count # 1
  THEN LET errorPos == IF indexOf(content, prefix) # -1 THEN indexOf(content, prefix) ELSE 0
           line == lineOf(text, errorPos)
       IN <<Diagnostic(msg, line, 0, line, 10)>>
  ELSE <<>>

\* Rule 2: the diagnostic for a head or body count other than 1
CardinalityDiagnostics(count, content, text, prefix, msg) ==
  IF count # 1
  THEN LET errorPos == IF indexOf(content, prefix) # -1 THEN indexOf(text, prefix) ELSE 0
           line == lineOf(text, errorPos)
       IN <<Diagnostic(msg, line, 0, line, 10)>>
  ELSE <<>>

\* the argument the content validators receive: headMatches[0], bodyMatches[0]
ValidatorArgument(content, m) == Whole(content, m)

\* the body of the loop over the html matches, for one match's group 1
BlockDiagnostics(content, text) ==
  LET headMatches == PairMatches(content, nHead)
      bodyMatches == PairMatches(content, nBody)
      headCount == Len(headMatches)
      bodyCount == Len(bodyMatches)
  IN CardinalityDiagnostics(headCount, content, text, sHeadPrefix, MsgHead)
     \o CardinalityDiagnostics(bodyCount, content, text, sBodyPrefix, MsgBody)
     \o (IF Len(headMatches) = 1
         THEN validateHeadContent(ValidatorArgument(content, headMatches[1]), text)
         ELSE <<>>)
     \o (IF Len(bodyMatches) = 1
         THEN validateBodyContent(ValidatorArgument(content, bodyMatches[1]), text)
         ELSE <<>>)

\* the matches of htmlRegex.exec in the while loop
HtmlMatches(text) == PairMatches(text, nHtml)

\* variant of StructureDiagnostics: with no html match the whole text is
\* checked as if it were the content of an html element
StructureDiagnosticsFailClosed(text) ==
  LET ms == HtmlMatches(text)
  IN IF ms = <<>> THEN BlockDiagnostics(text, text)
     ELSE Concat([i \in 1..Len(ms) |-> BlockDiagnostics(Inner(text, ms[i]), text)])

\* the diagnostics of rules 2 to 7: the loop over the html matches
StructureDiagnostics(text) ==
  LET ms == HtmlMatches(text)
  IN Concat([i \in 1..Len(ms) |-> BlockDiagnostics(Inner(text, ms[i]), text)])

\* the diagnostics list validateTextDocument builds for a text
Diagnostics(text) ==
  StartDiagnostics(text) \o EndDiagnostics(text) \o StructureDiagnostics(text)

(***************************************************************************)
(* Input texts                                                             *)
(***************************************************************************)
MaxDepth == 3
MaxHeads == 2
MaxBodies == 2
MaxRawTokens == 4
MaxNestTokens == 4
MaxEvents == 3

tNl == <<"\n">>
tX == <<"x">>
tHeadOpen == <<"<","h","e","a","d",">">>
tHeadClose == <<"<","/","h","e","a","d",">">>
tHeadUpper == <<"<","H","E","A","D",">">>
tHeadCloseUpper == <<"<","/","H","E","A","D",">">>
tBodyOpen == <<"<","b","o","d","y",">">>
tBodyClose == <<"<","/","b","o","d","y",">">>
tTitleOpen == <<"<","t","i","t","l","e",">">>
tTitleClose == <<"<","/","t","i","t","l","e",">">>
tMeta == <<"<","m","e","t","a",">">>
tBOpen == <<"<","b",">">>
tBClose == <<"<","/","b",">">>
tPOpen == <<"<","p",">">>
tPClose == <<"<","/","p",">">>
tDivOpen == <<"<","d","i","v",">">>
tDivClose == <<"<","/","d","i","v",">">>
tSpanOpen == <<"<","s","p","a","n",">">>
tSpanClose == <<"<","/","s","p","a","n",">">>

\* n copies of s
RECURSIVE Rep(_, _)
Rep(s, n) == IF n = 0 THEN <<>> ELSE s \o Rep(s, n - 1)

\* all concatenations of at most n tokens of the alphabet
RECURSIVE TokenTexts(_, _)
TokenTexts(alphabet, n) ==
  IF n = 0 THEN {<<>>}
  ELSE LET shorter == TokenTexts(alphabet, n - 1)
       IN shorter \cup {t \o tok : t \in shorter, tok \in alphabet}

\* properly nested div/span chains around the text x, up to depth d
RECURSIVE Chains(_)
Chains(d) ==
  IF d = 0 THEN {tX}
  ELSE LET inner == Chains(d - 1)
       IN inner \cup {tDivOpen \o f \o tDivClose : f \in inner}
                \cup {tSpanOpen \o f \o tSpanClose : f \in inner}

HeadInners ==
  { <<>>,
    tTitleOpen \o <<"T">> \o tTitleClose,
    tTitleOpen \o tBOpen \o <<"b","o","l","d">> \o tBClose \o tTitleClose,
    tTitleOpen \o <<"T">> \o tTitleClose \o tMeta }

BodyInners ==
  Chains(MaxDepth)
    \cup { <<>>,
           tPOpen \o <<"h","i">> \o tPClose,
           tSpanOpen \o tX \o tSpanClose \o tSpanOpen \o tDivOpen \o tX \o tDivClose \o tSpanClose,
           tDivOpen \o tSpanOpen \o tDivOpen \o tX \o tSpanClose \o tDivClose,
           tTitleOpen \o tBOpen \o tX \o tBClose \o tTitleClose }

HeadBlock(inner) == tHeadOpen \o inner \o tHeadClose
BodyBlock(inner) == tBodyOpen \o inner \o tBodyClose
HtmlBlock(inner) == sHtmlOpen \o inner \o sHtmlClose

\* documents with one head and one body
ContentTexts ==
  {HtmlBlock(HeadBlock(h) \o BodyBlock(b)) : h \in HeadInners, b \in BodyInners}

Margins == {<<>>, tNl, tNl \o tHeadOpen \o tNl, tX \o tNl \o sBodyPrefix \o tNl}

HeadForms == {tHeadOpen \o tHeadClose, tNl \o tHeadUpper \o tHeadCloseUpper}

\* documents with any number of head and body blocks, and text around the
\* html block
CountTexts ==
  {pre \o HtmlBlock(Rep(hd, nh) \o Rep(tNl \o BodyBlock(tX), nb)) \o post :
     pre \in Margins, post \in Margins, hd \in HeadForms,
     nh \in 0..MaxHeads, nb \in 0..MaxBodies}

\* documents with two html blocks
TwoBlockTexts ==
  {HtmlBlock(Rep(HeadBlock(<<>>), nh1) \o BodyBlock(tX)) \o tNl
     \o HtmlBlock(tNl \o Rep(HeadBlock(<<>>), nh2) \o Rep(BodyBlock(tX), nb2)) :
     nh1 \in 0..MaxHeads, nh2 \in 0..MaxHeads, nb2 \in 0..MaxBodies}

RawAlphabet == {sHtmlOpen, sHtmlClose, tNl, <<" ">>, tX \o tX \o tX}

\* arbitrary short texts
RawTexts == TokenTexts(RawAlphabet, MaxRawTokens)

Texts == ContentTexts \cup CountTexts \cup TwoBlockTexts \cup RawTexts

NestAlphabet == {tDivOpen, tDivClose, tSpanOpen, tSpanClose, tX}

\* documents whose body is an arbitrary short sequence of div/span tags
NestTexts ==
  {HtmlBlock(HeadBlock(<<>>) \o BodyBlock(b)) :
     b \in TokenTexts(NestAlphabet, MaxNestTokens) \cup Chains(MaxDepth)}

\* a document whose diagnostics list is empty, one with a single html block
\* and no head, and one that is no html at all
QuietText ==
  sHtmlOpen \o <<"<","h","e","a","d","/",">">> \o <<"<","m","e","t","a"," ">> \o tHeadClose
    \o <<"<","b","o","d","y","/",">">> \o <<"<","d","i","v"," ">> \o tBodyClose \o sHtmlClose

ServerTexts == {QuietText, HtmlBlock(BodyBlock(tX)), tX}

Uris == {"a.mhtml", "b.mhtml"}

(***************************************************************************)
(* The server                                                              *)
(***************************************************************************)
\* the version the client last sent for a document: one per change event
documentVersion(events, uri) ==
  Cardinality({i \in 1..Len(events) : events[i].uri = uri})

\* variant of sendDiagnostics: an empty list is not sent
sendDiagnosticsIfAny(out, batch) ==
  IF batch.diagnostics = <<>> THEN out ELSE Append(out, batch)

\* connection.sendDiagnostics: the batch goes out on the connection
sendDiagnostics(out, batch) == Append(out, batch)

\* validateTextDocument: the batch for a document, sent unconditionally
validateTextDocument(out, uri, textDocument) ==
  sendDiagnostics(out, [uri |-> uri, version |-> textDocument.version,
                        diagnostics |-> Diagnostics(textDocument.text)])

\* the client changes a document: the full text arrives as a change event
ClientChange(uri, text) ==
  /\ Len(arrived) < MaxEvents
  /\ LET version == documentVersion(arrived, uri) + 1
         event == [uri |-> uri, version |-> version, text |-> text]
     IN /\ inbox' = Append(inbox, event)
        /\ arrived' = Append(arrived, event)
  /\ UNCHANGED <<documents, sent, stack, nestLog>>

\* documents.onDidChangeContent: the store takes the new text and version,
\* then the handler validates the changed document
DidChangeContent ==
  /\ inbox # <<>>
  /\ LET change == Head(inbox)
         document == [version |-> change.version, text |-> change.text]
     IN /\ documents' = [documents EXCEPT ![change.uri] = document]
        /\ sent' = validateTextDocument(sent, change.uri, document)
  /\ inbox' = Tail(inbox)
  /\ UNCHANGED <<arrived, stack, nestLog>>

NoDocument == [version |-> 0, text |-> <<>>]

\* one change event for one document is in flight
Init ==
  /\ \E text \in Texts :
       inbox = <<[uri |-> "a.mhtml", version |-> 1, text |-> text]>>
  /\ arrived = inbox
  /\ documents = [u \in Uris |-> NoDocument]
  /\ sent = <<>>
  /\ stack = <<>>
  /\ nestLog = <<>>

Next == DidChangeContent

Spec == Init /\ [][Next]_vars

\* the server after start-up: no document open, nothing in flight
ServerInit ==
  /\ inbox = <<>>
  /\ arrived = <<>>
  /\ documents = [u \in Uris |-> NoDocument]
  /\ sent = <<>>
  /\ stack = <<>>
  /\ nestLog = <<>>

ServerNext ==
  \/ \E uri \in Uris, text \in ServerTexts : ClientChange(uri, text)
  \/ DidChangeContent

SpecServer == ServerInit /\ [][ServerNext]_vars

(***************************************************************************)
(* validateNesting, one invocation per step                                *)
(***************************************************************************)
\* the body match validateBodyContent hands to validateNesting
BodyMatchOf(text) ==
  LET content == Inner(text, HtmlMatches(text)[1])
  IN ValidatorArgument(content, PairMatches(content, nBody)[1])

\* validateBodyContent calls validateNesting(bodyContent, fullText, ..., [])
NestInit ==
  /\ \E text \in NestTexts :
       /\ stack = <<[content |-> BodyMatchOf(text), callerLength |-> -1]>>
       /\ nestLog = [fullText |-> text, diagnostics |-> <<>>, calls |-> 0, pairs |-> 0]
  /\ inbox = <<>>
  /\ arrived = <<>>
  /\ documents = [u \in Uris |-> NoDocument]
  /\ sent = <<>>

\* one invocation: its own diagnostics, then its recursive calls, which run
\* depth-first in call order
NestStep ==
  /\ stack # <<>>
  /\ LET content == Head(stack).content
         nested == NestedFragments(content)
     IN /\ stack' = [i \in 1..Len(nested) |->
                       [content |-> nested[i], callerLength |-> Len(content)]]
                    \o Tail(stack)
        /\ nestLog' = [nestLog EXCEPT
             !.diagnostics = @ \o TitleDiagnostics(content, nestLog.fullText)
                               \o SpanDiagnostics(content, nestLog.fullText),
             !.calls = Len(nested),
             !.pairs = Len(PairMatches(content, nDiv)) + Len(PairMatches(content, nSpan))]
  /\ UNCHANGED <<inbox, arrived, documents, sent>>

NestNext == NestStep

SpecNest == NestInit /\ [][NestNext]_vars

(***************************************************************************)
(* Vocabulary of the properties                                            *)
(***************************************************************************)
\* the handler has run: a batch is out
Validated == sent # <<>>

LastBatch == sent[Len(sent)]

\* the text the last batch was computed from, and its diagnostics
LastText == documents[LastBatch.uri].text
Out == LastBatch.diagnostics

Count(ds, msg) == Cardinality({i \in 1..Len(ds) : ds[i].message = msg})

Messages(ds) == [i \in 1..Len(ds) |-> ds[i].message]

IsCardinalityMessage(d) == d.message \in {MsgHead, MsgBody}

\* the lines of a text, separated by "\n"
RECURSIVE SplitLines(_)
SplitLines(t) ==
  LET brk == {i \in 1..Len(t) : t[i] = "\n"}
  IN IF brk = {} THEN <<t>>
     ELSE LET b == CHOOSE i \in brk : \A j \in brk : i <= j
          IN <<SubSeq(t, 1, b - 1)>> \o SplitLines(SubSeq(t, b + 1, Len(t)))

\* the text, white space at its end aside, ends with pat
TrimmedEndsWith(t, pat) ==
  \E k \in 1..Len(t) :
    /\ \A j \in (k + 1)..Len(t) : IsSpace(t[j])
    /\ k >= Len(pat)
    /\ SubSeq(t, k - Len(pat) + 1, k) = pat

\* the index of the first line that holds pat
FirstLineWith(t, pat) ==
  LET lines == SplitLines(t)
  IN (CHOOSE i \in 1..Len(lines) :
        /\ includes(lines[i], pat)
        /\ \A j \in 1..(i - 1) : ~includes(lines[j], pat)) - 1

\* no opening html tag is followed by a closing html tag
NoHtmlElement(t) ==
  ~\E i \in 1..Len(t) :
     /\ OpenTagEnd(t, i, nHtml) # 0
     /\ \E j \in (OpenTagEnd(t, i, nHtml) + 1)..Len(t) : CloseTagEnd(t, j, nHtml) # 0

\* the contents of the html blocks of a text, in order
Blocks(t) ==
  LET ms == HtmlMatches(t) IN [i \in 1..Len(ms) |-> Inner(t, ms[i])]

HeadCountOf(content) == Len(PairMatches(content, nHead))
BodyCountOf(content) == Len(PairMatches(content, nBody))

\* the position of the closing span tag that balances the span opened before
\* position i, counting the span tags opened in between; 0 when there is none
RECURSIVE BalancedClose(_, _, _)
BalancedClose(t, i, depth) ==
  IF i > Len(t) THEN 0
  ELSE IF OpenTagEnd(t, i, nSpan) # 0 THEN BalancedClose(t, i + 1, depth + 1)
  ELSE IF CloseTagEnd(t, i, nSpan) # 0
       THEN IF depth = 0 THEN i ELSE BalancedClose(t, i + 1, depth - 1)
  ELSE BalancedClose(t, i + 1, depth)

\* the span elements of t whose content holds a div opening tag, each named
\* by the position of its opening tag
SpansHoldingDiv(t) ==
  {i \in 1..Len(t) :
     /\ OpenTagEnd(t, i, nSpan) # 0
     /\ LET e == OpenTagEnd(t, i, nSpan)
            c == BalancedClose(t, e + 1, 0)
        IN c # 0 /\ HasOpenTag(SubSeq(t, e + 1, c - 1), nDiv)}

\* a span stands before a div in a chain: the div is inside the span
DivInsideSpan(f) ==
  LET sp == indexOf(f, tSpanOpen)
  IN sp # -1 /\ includes(SubSeq(f, sp + 1, Len(f)), tDivOpen)

TitleT == tTitleOpen \o <<"T">> \o tTitleClose
TitleBold == tTitleOpen \o tBOpen \o <<"b","o","l","d">> \o tBClose \o tTitleClose
ParagraphHi == tPOpen \o <<"h","i">> \o tPClose

\* one head holding only title/meta, one body holding properly nested
\* div/span and text with no div inside a span
WellFormedTexts ==
  {HtmlBlock(HeadBlock(h) \o BodyBlock(b)) :
     h \in {<<>>, TitleT, TitleT \o tMeta},
     b \in {f \in Chains(MaxDepth) : ~DivInsideSpan(f)}}

(***************************************************************************)
(* Properties                                                              *)
(***************************************************************************)
\* C1: a well-formed document (one head holding only title/meta, one body
\* holding only properly nested div/span and text) gets the empty
\* diagnostics list; the enclosing head and body tags are never reported.
C1_WellFormedIsClean ==
  (Validated /\ LastText \in WellFormedTexts) => Out = <<>>

\* C2: in a document with one head and one body whose body is properly
\* nested, the number of "<span> cannot contain <div>" diagnostics is the
\* number of span elements of the body whose content holds a div opening tag.
C2_OnePerOffendingSpan ==
  Validated =>
    \A h \in HeadInners, b \in Chains(MaxDepth) :
      LastText = HtmlBlock(HeadBlock(h) \o BodyBlock(b))
        => Count(Out, MsgSpan) = Cardinality(SpansHoldingDiv(b))

\* C3: a document with one head and one body whose head holds
\* <title><b>bold</b></title> gets exactly one "<title> can contain only
\* text" diagnostic.
C3_TitleInHeadChecked ==
  (Validated /\ \E b \in Chains(MaxDepth) :
                  LastText = HtmlBlock(HeadBlock(TitleBold) \o BodyBlock(b)))
    => Count(Out, MsgTitle) = 1

\* C4: a document with one head and one body whose body content is <p>hi</p>
\* gets exactly one "<body> may contain only <div> or <span>" diagnostic, on
\* the line of the first <p>, characters 0 to 3.
C4_OneDiagnosticForP ==
  (Validated /\ \E h \in HeadInners :
                  LastText = HtmlBlock(HeadBlock(h) \o BodyBlock(ParagraphHi)))
    => /\ Count(Out, MsgBodyContent) = 1
       /\ \E i \in 1..Len(Out) :
            Out[i] = Diagnostic(MsgBodyContent, FirstLineWith(LastText, tPOpen), 0,
                                FirstLineWith(LastText, tPOpen), 3)

\* C5: each html block contributes one head-cardinality diagnostic exactly
\* when its head count is not 1 and, independently, one body-cardinality
\* diagnostic exactly when its body count is not 1, in block order.
C5_CardinalityPerBlock ==
  Validated =>
    LET blocks == Blocks(LastText)
        Expected(content) ==
          (IF HeadCountOf(content) # 1 THEN <<MsgHead>> ELSE <<>>)
          \o (IF BodyCountOf(content) # 1 THEN <<MsgBody>> ELSE <<>>)
    IN Messages(SelectSeq(Out, IsCardinalityMessage))
         = Concat([i \in 1..Len(blocks) |-> Expected(blocks[i])])

\* C5 witness: one html block with two heads and one body got one head
\* diagnostic and no body diagnostic
C5_Witness ==
  /\ Validated
  /\ Len(Blocks(LastText)) = 1
  /\ HeadCountOf(Blocks(LastText)[1]) = 2
  /\ BodyCountOf(Blocks(LastText)[1]) = 1
  /\ Count(Out, MsgHead) = 1
  /\ Count(Out, MsgBody) = 0

\* C6: a text that does not, trimmed, end with </html> gets the "Document
\* must end with </html>" diagnostic on its last line, from character
\* max(0, L-7) to L, L the length of that line; a text that does gets none.
C6_EndDiagnostic ==
  Validated =>
    LET lines == SplitLines(LastText)
        last == Len(lines) - 1
        L == Len(lines[Len(lines)])
    IN IF TrimmedEndsWith(LastText, sHtmlClose)
       THEN Count(Out, MsgEnd) = 0
       ELSE /\ Count(Out, MsgEnd) = 1
            /\ \E i \in 1..Len(Out) :
                 Out[i] = Diagnostic(MsgEnd, last, IF L - 7 > 0 THEN L - 7 ELSE 0, last, L)

\* C6 witness: the diagnostic on a later line, starting past character 0
C6_Witness ==
  /\ Validated
  /\ ~TrimmedEndsWith(LastText, sHtmlClose)
  /\ \E i \in 1..Len(Out) :
       Out[i].message = MsgEnd /\ Out[i].startLine >= 1 /\ Out[i].startChar >= 1

\* C7: every change event gets exactly one batch, in arrival order, with the
\* event's uri and version and the diagnostics of the event's text, be they
\* empty; so the versions sent for one document only grow.
C7_OneBatchPerChange ==
  /\ Len(sent) + Len(inbox) = Len(arrived)
  /\ \A k \in 1..Len(sent) :
       /\ sent[k].uri = arrived[k].uri
       /\ sent[k].version = arrived[k].version
       /\ sent[k].diagnostics = Diagnostics(arrived[k].text)
  /\ \A j, k \in 1..Len(sent) :
       (j < k /\ sent[j].uri = sent[k].uri) => sent[j].version < sent[k].version

\* C7 witness: two batches for one document, the first of them empty
C7_Witness ==
  /\ Len(sent) >= 2
  /\ sent[1].uri = sent[2].uri
  /\ sent[1].diagnostics = <<>>
  /\ sent[2].diagnostics # <<>>

\* C8: a text with no html element gets only rule-1 diagnostics: a sub-list
\* of <<start, end>> in that order.
C8_FailOpen ==
  (Validated /\ NoHtmlElement(LastText))
    => Messages(Out) \in {<<>>, <<MsgStart>>, <<MsgEnd>>, <<MsgStart, MsgEnd>>}

\* C8 witness: an opening html tag that is never closed, after other text
C8_Witness ==
  /\ Validated
  /\ NoHtmlElement(LastText)
  /\ includes(LastText, sHtmlOpen)
  /\ Messages(Out) = <<MsgStart, MsgEnd>>

\* the line a cardinality diagnostic is expected on, given whether the
\* prefix counts as present
ExpectedCardinality(present, text, prefix, msg) ==
  LET line == IF present THEN FirstLineWith(text, prefix) ELSE 0
  IN Diagnostic(msg, line, 0, line, 10)

\* C9 as stated: a cardinality diagnostic is on the line of the first <head
\* (<body) of the document when the document holds one, else on line 0.
C9_LineByDocument ==
  Validated =>
    LET blocks == Blocks(LastText)
        Expected(content) ==
          (IF HeadCountOf(content) # 1
           THEN <<ExpectedCardinality(includes(LastText, sHeadPrefix),
                                      LastText, sHeadPrefix, MsgHead)>>
           ELSE <<>>)
          \o (IF BodyCountOf(content) # 1
              THEN <<ExpectedCardinality(includes(LastText, sBodyPrefix),
                                         LastText, sBodyPrefix, MsgBody)>>
              ELSE <<>>)
    IN SelectSeq(Out, IsCardinalityMessage)
         = Concat([i \in 1..Len(blocks) |-> Expected(blocks[i])])

\* C9 amended: a cardinality diagnostic is on the line of the first <head
\* (<body) of the document when the content of the html block it is about
\* holds one, else on line 0; it spans characters 0 to 10.
C9_LineByBlockContent ==
  Validated =>
    LET blocks == Blocks(LastText)
        Expected(content) ==
          (IF HeadCountOf(content) # 1
           THEN <<ExpectedCardinality(includes(content, sHeadPrefix),
                                      LastText, sHeadPrefix, MsgHead)>>
           ELSE <<>>)
          \o (IF BodyCountOf(content) # 1
              THEN <<ExpectedCardinality(includes(content, sBodyPrefix),
                                         LastText, sBodyPrefix, MsgBody)>>
              ELSE <<>>)
    IN SelectSeq(Out, IsCardinalityMessage)
         = Concat([i \in 1..Len(blocks) |-> Expected(blocks[i])])

\* C9 witness: a head-cardinality diagnostic on a line other than line 0
C9_Witness ==
  /\ Validated
  /\ \E i \in 1..Len(Out) : Out[i].message = MsgHead /\ Out[i].startLine >= 1
  /\ \E i \in 1..Len(Out) : Out[i].message = MsgBody /\ Out[i].startLine = 0

\* C10: every recursive call of validateNesting receives a fragment strictly
\* shorter than its caller's, and an invocation makes at most as many calls
\* as its fragment has div and span pair matches.
C10_FragmentsShrink ==
  /\ \A i \in 1..Len(stack) :
       stack[i].callerLength # -1 => Len(stack[i].content) < stack[i].callerLength
  /\ nestLog.calls <= nestLog.pairs

\* C10 witness: an invocation two levels down is pending beside a sibling
C10_Witness ==
  /\ Len(stack) >= 2
  /\ nestLog.calls >= 1
  /\ \E i \in 1..Len(stack) :
       /\ stack[i].callerLength # -1
       /\ stack[i].callerLength < Len(BodyMatchOf(nestLog.fullText))

====
